---- MODULE Spec2Model ----
(***************************************************************************)
(* A model of domainrepcheck.py: the reading of the website list, the      *)
(* case-insensitive deduplication, the preset list, the three provider     *)
(* lookups, the aggregation, the rendering of the report and its writing.  *)
(*                                                                         *)
(* Python str values that the program transforms (domains, file lines)     *)
(* are tuples of one-character strings, so that lower() and strip() are    *)
(* computed character by character.  Python dicts are ordered: a dict is   *)
(* a sequence of <<key, value>> pairs in insertion order.                  *)
(***************************************************************************)
EXTENDS Integers, Sequences, FiniteSets, TLC

VARIABLES
    args,             \* argparse namespace: websites_file, website, output
    fs_preset,        \* the file at args.preset_list, as open() finds it
    fs_websites,      \* the file at args.websites_file, as open() finds it
    env,              \* names of the environment variables that are set
    pc,               \* position of the single control flow
    websites,         \* main: websites
    unique_websites,  \* main: unique_websites
    preset_websites,  \* check_reputation: preset_websites
    results,          \* check_reputation: results (ordered dict)
    idx,              \* check_reputation: position of the for loop
    domain,           \* aggregate_reputation: its argument
    reputation_data,  \* aggregate_reputation: reputation_data (ordered dict)
    calls,            \* log of the provider functions invoked, in order
    requests,         \* log of the HTTP GET requests issued, in order
    output_lines,     \* main: output_lines
    stdout,           \* what print() wrote
    out_file,         \* the file at args.output, as open(.., 'w') leaves it
    exit_code,        \* the exit status of the process
    exception         \* the uncaught exception that ended the process

vars == <<args, fs_preset, fs_websites, env, pc, websites, unique_websites,
          preset_websites, results, idx, domain, reputation_data, calls,
          requests, output_lines, stdout, out_file, exit_code, exception>>

-----------------------------------------------------------------------------
(* Bounds of the model *)

MaxSites == 2

-----------------------------------------------------------------------------
(* Python str: lower(), strip() *)

None == "None"

LowerChar(c) ==
    CASE c = "A" -> "a"
      [] c = "B" -> "b"
      [] c = "E" -> "e"
      [] OTHER -> c

Lower(s) == [i \in 1..Len(s) |-> LowerChar(s[i])]

IsSpace(c) == c \in {" ", "\n", "\t"}

RECURSIVE LStrip(_)
LStrip(s) ==
    IF s # <<>> /\ IsSpace(Head(s)) THEN LStrip(Tail(s)) ELSE s

RECURSIVE RStrip(_)
RStrip(s) ==
    IF s # <<>> /\ IsSpace(s[Len(s)]) THEN RStrip(SubSeq(s, 1, Len(s) - 1)) ELSE s

Strip(s) == RStrip(LStrip(s))

-----------------------------------------------------------------------------
(* Python dict, ordered by insertion *)

Keys(d) == [i \in 1..Len(d) |-> d[i][1]]

KeySet(d) == {d[i][1] : i \in 1..Len(d)}

DictGet(d, key) == d[CHOOSE i \in 1..Len(d) : d[i][1] = key][2]

DictSet(d, key, val) ==
    IF key \in KeySet(d)
    THEN [i \in 1..Len(d) |-> IF d[i][1] = key THEN <<key, val>> ELSE d[i]]
    ELSE Append(d, <<key, val>>)

-----------------------------------------------------------------------------
(* Python and JSON values, tagged by type *)

PStr(t) == [k |-> "str", str |-> t]

PChars(s) == [k |-> "chars", chars |-> s]

PDict(items) == [k |-> "dict", items |-> items]

JNull == [k |-> "null"]

JList == [k |-> "list"]

JNum(n) == [k |-> "num", num |-> n]

JObj(f) == [k |-> "obj", obj |-> f]

EmptyObj == JObj(<<>>)

NA == PStr("N/A")

(* exceptions: the type and the except clauses it matches *)
Timeout ==
    [type |-> "Timeout", RequestException |-> TRUE, JSONDecodeError |-> FALSE]

HTTPError ==
    [type |-> "HTTPError", RequestException |-> TRUE, JSONDecodeError |-> FALSE]

RequestsJSONDecodeError ==
    [type |-> "requests.JSONDecodeError", RequestException |-> TRUE,
     JSONDecodeError |-> TRUE]

JsonJSONDecodeError ==
    [type |-> "json.JSONDecodeError", RequestException |-> FALSE,
     JSONDecodeError |-> TRUE]

AttributeError ==
    [type |-> "AttributeError", RequestException |-> FALSE,
     JSONDecodeError |-> FALSE]

IsException(v) == "type" \in DOMAIN v

(* str(e): the text of the message is not interpreted *)
StrOf(e) == PStr("str(e)")

(* d.get(key, default), on whatever d is; an exception in d propagates *)
PyGet(d, key, default) ==
    IF IsException(d) THEN d
    ELSE IF d.k # "obj" THEN AttributeError
    ELSE IF key \in DOMAIN d.obj THEN d.obj[key]
    ELSE default

-----------------------------------------------------------------------------
(* The upstream services: what one HTTP GET can come back with *)

ResponsesOf(bodies) ==
    {[kind |-> "no_response", exc |-> Timeout, json |-> JNull]}
    \cup {[kind |-> "response", status |-> 500, is_json |-> TRUE,
           json |-> JNull]}
    \cup {[kind |-> "response", status |-> 200, is_json |-> FALSE,
           decode_exc |-> e, json |-> JNull] :
            e \in {RequestsJSONDecodeError, JsonJSONDecodeError}}
    \cup {[kind |-> "response", status |-> 200, is_json |-> TRUE, json |-> b] :
            b \in bodies}

ApivoidBodies ==
    { JList,
      EmptyObj,
      JObj([data |-> JNull]),
      JObj([data |-> JObj([reputation |-> JNull, blacklists |-> JNum(2)])]),
      JObj([data |-> JObj([reputation |-> EmptyObj])]),
      JObj([data |-> JObj([reputation |-> JObj([score |-> JNum(7)]),
                           blacklists |-> JNum(2)]),
            elapsed |-> JNum(1)]) }

IpvoidBodies ==
    { JNull,
      JObj([Blacklists |-> JNum(3), Extra |-> JNull]) }

MxtoolboxBodies ==
    { JNum(0),
      JObj([Details |-> JList]) }

-----------------------------------------------------------------------------
(* The three provider lookups *)

(* lines 44-49 *)
ApivoidExtract(data) ==
    LET reputation_score ==
            PyGet(PyGet(PyGet(data, "data", EmptyObj), "reputation", EmptyObj),
                  "score", NA)
        blacklist_status == PyGet(PyGet(data, "data", EmptyObj), "blacklists", NA)
    IN  IF IsException(reputation_score) THEN reputation_score
        ELSE IF IsException(blacklist_status) THEN blacklist_status
        ELSE PDict(<< <<"reputation_score", reputation_score>>,
                      <<"blacklist_status", blacklist_status>> >>)

(* lines 83-87 *)
IpvoidExtract(data) ==
    LET blacklist_count == PyGet(data, "Blacklists", NA)
        details == PyGet(data, "Details", NA)
    IN  IF IsException(blacklist_count) THEN blacklist_count
        ELSE IF IsException(details) THEN details
        ELSE PDict(<< <<"blacklist_count", blacklist_count>>,
                      <<"details", details>> >>)

(* lines 121-125 *)
MxtoolboxExtract(data) ==
    LET health_status == PyGet(data, "Health", NA)
        details == PyGet(data, "Details", NA)
    IN  IF IsException(health_status) THEN health_status
        ELSE IF IsException(details) THEN details
        ELSE PDict(<< <<"health_status", health_status>>,
                      <<"details", details>> >>)

(* an error record that also carries a placeholder field *)
ErrorResult_with_fields(msg) == PDict(<< <<"error", msg>>, <<"details", NA>> >>)

ErrorResult(msg) == PDict(<< <<"error", msg>> >>)

(* the body of the try: requests.get, raise_for_status, json, and then the *)
(* extraction, whose outcome on the decoded body is `extracted`            *)
TryBody(resp, extracted) ==
    IF resp.kind = "no_response" THEN resp.exc
    ELSE IF resp.status >= 400 THEN HTTPError
    ELSE IF ~resp.is_json THEN resp.decode_exc
    ELSE extracted

(* the except clauses, in their order; anything else propagates *)
Handle(out) ==
    IF ~IsException(out) THEN out
    ELSE IF out.RequestException THEN ErrorResult(StrOf(out))
    ELSE IF out.JSONDecodeError THEN ErrorResult(PStr("Invalid JSON response"))
    ELSE out

(* a lookup that never notices a missing key *)
KeyMissing_never(envvar) == FALSE

(* the early return: no HTTP GET is made, there is no response *)
NoRequest == [kind |-> "no_request", json |-> JNull]

(* os.getenv(envvar) is None or empty *)
KeyMissing(envvar) == envvar \notin env

(* lines 18-55 *)
apivoid_domain_reputation(resp) ==
    IF KeyMissing("APIVOID_API_KEY")
    THEN ErrorResult(PStr("API key not provided"))
    ELSE Handle(TryBody(resp, ApivoidExtract(resp.json)))

(* lines 58-93 *)
ipvoid_domain_reputation(resp) ==
    IF KeyMissing("IPVVOID_API_KEY")
    THEN ErrorResult(PStr("API key not provided"))
    ELSE Handle(TryBody(resp, IpvoidExtract(resp.json)))

(* lines 96-131 *)
mxtoolbox_domain_reputation(resp) ==
    IF KeyMissing("MXTOOLBOX_API_KEY")
    THEN ErrorResult(PStr("API key not provided"))
    ELSE Handle(TryBody(resp, MxtoolboxExtract(resp.json)))

-----------------------------------------------------------------------------
(* The inputs of a run *)

Com == <<".", "c", "o", "m">>

(* lines 252-256 *)
specific_websites ==
    << <<"e", "x", "a", "m", "p", "l", "e", "1">> \o Com,
       <<"e", "x", "a", "m", "p", "l", "e", "2">> \o Com,
       <<"e", "x", "a", "m", "p", "l", "e", "3">> \o Com >>

InputDomains ==
    { <<"A">> \o Com, <<"a">> \o Com,
      <<"E", "x", "a", "m", "p", "l", "e", "1">> \o Com }

WebsiteLines ==
    { <<" ", "B">> \o Com \o <<"\n">>, <<"a">> \o Com \o <<"\n">>, <<" ", "\n">> }

PresetLines ==
    { <<>>,
      << <<" ", "B">> \o Com \o <<" ", "\n">>, <<"\n">> >> }

SeqsUpTo(S, n) == UNION {[1..m -> S] : m \in 0..n}

Missing == [status |-> "missing"]

Unreadable == [status |-> "unreadable"]

File(lines) == [status |-> "ok", lines |-> lines]

EnvVars == {"APIVOID_API_KEY", "IPVVOID_API_KEY", "MXTOOLBOX_API_KEY"}

(* lines 210-246: the namespaces parse_args can return *)
ArgSets ==
    {[websites_file |-> None, website |-> w, output |-> o] :
        w \in SeqsUpTo(InputDomains, MaxSites) \ {<<>>}, o \in {None, "out.txt"}}
    \cup
    {[websites_file |-> "websites.txt", website |-> <<>>, output |-> o] :
        o \in {None, "out.txt"}}

Init ==
    /\ args \in ArgSets
    /\ fs_preset \in {Missing, Unreadable} \cup {File(l) : l \in PresetLines}
    /\ fs_websites \in
         IF args.websites_file = None THEN {Missing}
         ELSE {Missing, Unreadable}
              \cup {File(l) : l \in SeqsUpTo(WebsiteLines, MaxSites)}
    /\ env \in SUBSET EnvVars
    /\ pc = "main"
    /\ websites = <<>>
    /\ unique_websites = <<>>
    /\ preset_websites = {}
    /\ results = <<>>
    /\ idx = 0
    /\ domain = <<>>
    /\ reputation_data = PDict(<<>>)
    /\ calls = <<>>
    /\ requests = <<>>
    /\ output_lines = <<>>
    /\ stdout = <<>>
    /\ out_file = [state |-> "untouched"]
    /\ exit_code = -1
    /\ exception = None

-----------------------------------------------------------------------------
(* The end of the process: sys.exit(code), an uncaught exception (status 1), *)
(* or the return of main (status 0)                                          *)

Exit(code, exc) ==
    /\ pc' = "exited"
    /\ exit_code' = code
    /\ exception' = exc

-----------------------------------------------------------------------------
(* main, lines 258-293 *)

NonBlank(s) == s # <<>>

(* [line.strip() for line in file if line.strip()] *)
StrippedLines(lines) ==
    SelectSeq([i \in 1..Len(lines) |-> Strip(lines[i])], NonBlank)

(* a deduplication that compares the spellings as given *)
RECURSIVE DedupExactLoop(_, _, _)
DedupExactLoop(rest, seen, unique) ==
    IF rest = <<>> THEN unique
    ELSE IF Head(rest) \notin seen
         THEN DedupExactLoop(Tail(rest), seen \cup {Head(rest)},
                             Append(unique, Head(rest)))
         ELSE DedupExactLoop(Tail(rest), seen, unique)

Dedup_case_sensitive(ws) == DedupExactLoop(ws, {}, <<>>)

(* lines 281-287 *)
RECURSIVE DedupLoop(_, _, _)
DedupLoop(rest, seen, unique) ==
    IF rest = <<>> THEN unique
    ELSE LET site == Head(rest)
             lower_site == Lower(site)
         IN  IF lower_site \notin seen
             THEN DedupLoop(Tail(rest), seen \cup {lower_site}, Append(unique, site))
             ELSE DedupLoop(Tail(rest), seen, unique)

Dedup(ws) == DedupLoop(ws, {}, <<>>)

(* lines 262-278 *)
MainReadWebsites ==
    /\ pc = "main"
    /\ \/ /\ args.websites_file # None
          /\ fs_websites.status # "ok"
          /\ Exit(1, None)
          /\ UNCHANGED websites
       \/ /\ args.websites_file # None
          /\ fs_websites.status = "ok"
          /\ websites' = StrippedLines(fs_websites.lines) \o args.website
          /\ pc' = "dedup"
          /\ UNCHANGED <<exit_code, exception>>
       \/ /\ args.websites_file = None
          /\ websites' = args.website
          /\ pc' = "dedup"
          /\ UNCHANGED <<exit_code, exception>>
    /\ UNCHANGED <<args, fs_preset, fs_websites, env, unique_websites,
                   preset_websites, results, idx, domain, reputation_data,
                   calls, requests, output_lines, stdout, out_file>>

(* lines 281-296 *)
MainDedup ==
    /\ pc = "dedup"
    /\ unique_websites' = Dedup(websites)
    /\ \/ /\ unique_websites' = <<>>
          /\ Exit(1, None)
       \/ /\ unique_websites' # <<>>
          /\ pc' = "check_reputation"
          /\ UNCHANGED <<exit_code, exception>>
    /\ UNCHANGED <<args, fs_preset, fs_websites, env, websites,
                   preset_websites, results, idx, domain, reputation_data,
                   calls, requests, output_lines, stdout, out_file>>

-----------------------------------------------------------------------------
(* check_reputation, lines 180-202 *)

(* a preset set without the hardcoded list *)
PresetSet_file_only(lines, specific) ==
    {Lower(Strip(lines[i])) : i \in {j \in 1..Len(lines) : Strip(lines[j]) # <<>>}}

(* lines 183 and 191 *)
PresetSet(lines, specific) ==
    {Lower(Strip(lines[i])) : i \in {j \in 1..Len(lines) : Strip(lines[j]) # <<>>}}
    \cup {Lower(specific[i]) : i \in 1..Len(specific)}

(* a load that carries on without the preset file *)
CheckReputationLoad_tolerant ==
    /\ pc = "check_reputation"
    /\ preset_websites' =
          PresetSet(IF fs_preset.status = "ok" THEN fs_preset.lines ELSE <<>>,
                    specific_websites)
    /\ idx' = 1
    /\ pc' = "loop"
    /\ UNCHANGED <<args, fs_preset, fs_websites, env, websites, unique_websites,
                   results, domain, reputation_data, calls, requests,
                   output_lines, stdout, out_file, exit_code, exception>>

(* lines 180-191 *)
CheckReputationLoad ==
    /\ pc = "check_reputation"
    /\ \/ /\ fs_preset.status # "ok"
          /\ Exit(1, None)
          /\ UNCHANGED <<preset_websites, idx>>
       \/ /\ fs_preset.status = "ok"
          /\ preset_websites' = PresetSet(fs_preset.lines, specific_websites)
          /\ idx' = 1
          /\ pc' = "loop"
          /\ UNCHANGED <<exit_code, exception>>
    /\ UNCHANGED <<args, fs_preset, fs_websites, env, websites, unique_websites,
                   results, domain, reputation_data, calls, requests,
                   output_lines, stdout, out_file>>

(* the spelling as given *)
normalized_website_verbatim(website) == website

(* line 194 *)
normalized_website(website) == Lower(website)

(* a record that starts with the provider slots only *)
NewReputationData_no_domain(d) ==
    PDict(<< <<"APIVoid", PDict(<<>>)>>,
             <<"IPVoid", PDict(<<>>)>>,
             <<"MXToolbox", PDict(<<>>)>> >>)

(* lines 144-149 *)
NewReputationData(d) ==
    PDict(<< <<"domain", PChars(d)>>,
             <<"APIVoid", PDict(<<>>)>>,
             <<"IPVoid", PDict(<<>>)>>,
             <<"MXToolbox", PDict(<<>>)>> >>)

(* lines 193-202, and the entry of aggregate_reputation, lines 144-149 *)
CheckReputationLoop ==
    /\ pc = "loop"
    /\ \/ /\ idx > Len(unique_websites)
          /\ pc' = "write"
          /\ UNCHANGED <<results, idx, domain, reputation_data>>
       \/ /\ idx <= Len(unique_websites)
          /\ normalized_website(unique_websites[idx]) \in preset_websites
          /\ results' = DictSet(results, unique_websites[idx],
                                PDict(<< <<"preset_status", PStr("Unsafe")>> >>))
          /\ idx' = idx + 1
          /\ UNCHANGED <<pc, domain, reputation_data>>
       \/ /\ idx <= Len(unique_websites)
          /\ normalized_website(unique_websites[idx]) \notin preset_websites
          /\ domain' = normalized_website(unique_websites[idx])
          /\ reputation_data' = NewReputationData(domain')
          /\ pc' = "apivoid"
          /\ UNCHANGED <<results, idx>>
    /\ UNCHANGED <<args, fs_preset, fs_websites, env, websites, unique_websites,
                   preset_websites, calls, requests, output_lines, stdout,
                   out_file, exit_code, exception>>

-----------------------------------------------------------------------------
(* aggregate_reputation, lines 151-165: one provider call and the store of  *)
(* its result; after the last one, the return (line 165) and the store of   *)
(* the record in results (line 200).  An exception the provider does not    *)
(* catch unwinds through aggregate_reputation, check_reputation and main:   *)
(* traceback, status 1.                                                     *)

(* a step that calls the provider once more after an error result *)
ProviderStep_retry_once(name, result, next) ==
    /\ calls' = Append(calls, <<name, domain>>)
    /\ IF IsException(result)
       THEN /\ Exit(1, result.type)
            /\ UNCHANGED <<reputation_data, results, idx>>
       ELSE /\ reputation_data' =
                   PDict(DictSet(reputation_data.items, name, result))
            /\ UNCHANGED <<results, idx>>
            /\ pc' = IF /\ "error" \in KeySet(result.items)
                        /\ \/ calls = <<>>
                           \/ calls[Len(calls)] # <<name, domain>>
                     THEN pc ELSE next
            /\ UNCHANGED <<exit_code, exception>>
    /\ UNCHANGED <<args, fs_preset, fs_websites, env, websites, unique_websites,
                   preset_websites, domain, output_lines, stdout, out_file>>

ProviderStep(name, result, next) ==
    /\ calls' = Append(calls, <<name, domain>>)
    /\ IF IsException(result)
       THEN /\ Exit(1, result.type)
            /\ UNCHANGED <<reputation_data, results, idx>>
       ELSE /\ reputation_data' =
                   PDict(DictSet(reputation_data.items, name, result))
            /\ IF next = "loop"
               THEN /\ results' = DictSet(results, unique_websites[idx],
                                          reputation_data')
                    /\ idx' = idx + 1
               ELSE UNCHANGED <<results, idx>>
            /\ pc' = next
            /\ UNCHANGED <<exit_code, exception>>
    /\ UNCHANGED <<args, fs_preset, fs_websites, env, websites, unique_websites,
                   preset_websites, domain, output_lines, stdout, out_file>>

(* lines 152-153 *)
CallApivoid ==
    /\ pc = "apivoid"
    /\ \/ /\ KeyMissing("APIVOID_API_KEY")
          /\ ProviderStep("APIVoid", apivoid_domain_reputation(NoRequest), "ipvoid")
          /\ UNCHANGED requests
       \/ /\ ~KeyMissing("APIVOID_API_KEY")
          /\ requests' = Append(requests, <<"APIVoid", domain>>)
          /\ \E resp \in ResponsesOf(ApivoidBodies) :
                ProviderStep("APIVoid", apivoid_domain_reputation(resp), "ipvoid")

(* lines 156-157 *)
CallIpvoid ==
    /\ pc = "ipvoid"
    /\ \/ /\ KeyMissing("IPVVOID_API_KEY")
          /\ ProviderStep("IPVoid", ipvoid_domain_reputation(NoRequest), "mxtoolbox")
          /\ UNCHANGED requests
       \/ /\ ~KeyMissing("IPVVOID_API_KEY")
          /\ requests' = Append(requests, <<"IPVoid", domain>>)
          /\ \E resp \in ResponsesOf(IpvoidBodies) :
                ProviderStep("IPVoid", ipvoid_domain_reputation(resp), "mxtoolbox")

(* lines 160-165, then line 200 of check_reputation *)
CallMxtoolbox ==
    /\ pc = "mxtoolbox"
    /\ \/ /\ KeyMissing("MXTOOLBOX_API_KEY")
          /\ ProviderStep("MXToolbox", mxtoolbox_domain_reputation(NoRequest), "loop")
          /\ UNCHANGED requests
       \/ /\ ~KeyMissing("MXTOOLBOX_API_KEY")
          /\ requests' = Append(requests, <<"MXToolbox", domain>>)
          /\ \E resp \in ResponsesOf(MxtoolboxBodies) :
                ProviderStep("MXToolbox", mxtoolbox_domain_reputation(resp),
                             "loop")

-----------------------------------------------------------------------------
(* main, lines 298-328: the rendering and the writing of the report *)

RECURSIVE Flatten(_)
Flatten(ss) == IF ss = <<>> THEN <<>> ELSE Head(ss) \o Flatten(Tail(ss))

(* lines 309-315 *)
RenderService(service, data) ==
    << [line |-> "service", service |-> service] >>
    \o IF data.k = "dict"
       THEN [i \in 1..Len(data.items) |->
                [line |-> "field", key |-> data.items[i][1],
                 value |-> data.items[i][2]]]
       ELSE << [line |-> "data", data |-> data] >>

(* lines 304-315 *)
RenderWebsite(website, reputation) ==
    << [line |-> "website", website |-> website] >>
    \o IF "preset_status" \in KeySet(reputation.items)
       THEN << [line |-> "preset",
                value |-> DictGet(reputation.items, "preset_status")] >>
       ELSE Flatten([i \in 1..Len(reputation.items) |->
                        RenderService(reputation.items[i][1],
                                      reputation.items[i][2])])

(* lines 302-315 *)
Render(res, current_datetime) ==
    << [line |-> "header", generated |-> current_datetime] >>
    \o Flatten([i \in 1..Len(res) |-> RenderWebsite(res[i][1], res[i][2])])

(* lines 298-328 *)
MainWrite ==
    /\ pc = "write"
    /\ output_lines' = Render(results, "now")
    /\ \/ /\ args.output # None
          /\ out_file' = [state |-> "written", text |-> output_lines']
          /\ Exit(0, None)
          /\ UNCHANGED stdout
       \/ /\ args.output # None
          /\ out_file' = [state |-> "unwritable"]
          /\ Exit(1, None)
          /\ UNCHANGED stdout
       \/ /\ args.output = None
          /\ stdout' = output_lines'
          /\ Exit(0, None)
          /\ UNCHANGED out_file
    /\ UNCHANGED <<args, fs_preset, fs_websites, env, websites, unique_websites,
                   preset_websites, results, idx, domain, reputation_data,
                   calls, requests>>

-----------------------------------------------------------------------------

Next ==
    \/ MainReadWebsites
    \/ MainDedup
    \/ CheckReputationLoad
    \/ CheckReputationLoop
    \/ CallApivoid
    \/ CallIpvoid
    \/ CallMxtoolbox
    \/ MainWrite

Spec == Init /\ [][Next]_vars

-----------------------------------------------------------------------------
(* Properties *)

LookupPcs == {"apivoid", "ipvoid", "mxtoolbox"}

Finished == pc = "exited" /\ exit_code = 0

(* the lowercased spelling of w is a trimmed non-blank line of the preset *)
(* file, lowercased, or an entry of the hardcoded list, lowercased        *)
InPresetSet(w) ==
    \/ \E i \in 1..Len(fs_preset.lines) :
          /\ Strip(fs_preset.lines[i]) # <<>>
          /\ Lower(Strip(fs_preset.lines[i])) = Lower(w)
    \/ \E i \in 1..Len(specific_websites) :
          Lower(specific_websites[i]) = Lower(w)

PresetRecord == PDict(<< <<"preset_status", PStr("Unsafe")>> >>)

(* C1: a domain whose lowercased form is in the preset set is recorded as *)
(* exactly {preset_status: "Unsafe"}, and no provider lookup and no HTTP  *)
(* request is ever made for it.                                           *)
C1_PresetDomainsUnsafe ==
    fs_preset.status = "ok" =>
        \A i \in 1..Len(unique_websites) :
            InPresetSet(unique_websites[i]) =>
                /\ \A j \in 1..Len(calls) :
                      /\ calls[j][2] # Lower(unique_websites[i])
                      /\ calls[j][2] # unique_websites[i]
                /\ \A j \in 1..Len(requests) :
                      /\ requests[j][2] # Lower(unique_websites[i])
                      /\ requests[j][2] # unique_websites[i]
                /\ i < idx =>
                      /\ unique_websites[i] \in KeySet(results)
                      /\ DictGet(results, unique_websites[i]) = PresetRecord

(* a finished run that both matched a differently-cased preset domain and *)
(* looked another domain up                                               *)
C1_Witness ==
    /\ Finished
    /\ calls # <<>>
    /\ \E i \in 1..Len(unique_websites) :
          /\ InPresetSet(unique_websites[i])
          /\ unique_websites[i] # Lower(unique_websites[i])
          /\ DictGet(results, unique_websites[i]) = PresetRecord

(* C3: no provider lookup ever raises to its caller, whatever the upstream *)
(* returns: no uncaught exception ends the process.                        *)
C3_LookupNeverRaises == exception = None

(* C5: the resolved list holds, for each distinct lowercased domain, its   *)
(* first-seen spelling, in order of first occurrence; the report has one   *)
(* entry per resolved domain, keyed by that spelling, in the same order.   *)
FirstOccurrences ==
    {j \in 1..Len(websites) :
        \A h \in 1..(j - 1) : Lower(websites[h]) # Lower(websites[j])}

NthFirstOccurrence(i) ==
    CHOOSE j \in FirstOccurrences :
        Cardinality({h \in FirstOccurrences : h <= j}) = i

IsWebsiteLine(l) == l.line = "website"

WebsitesOf(lines) ==
    LET sel == SelectSeq(lines, IsWebsiteLine)
    IN  [i \in 1..Len(sel) |-> sel[i].website]

C5_DedupFirstSeen ==
    /\ pc = "dedup" =>
          Dedup(<< <<"A">> \o Com, <<"a">> \o Com, <<"B">> \o Com >>)
              = << <<"A">> \o Com, <<"B">> \o Com >>
    /\ pc \notin {"main", "dedup"} =>
          /\ Len(unique_websites) = Cardinality(FirstOccurrences)
          /\ \A i \in 1..Len(unique_websites) :
                unique_websites[i] = websites[NthFirstOccurrence(i)]
    /\ pc \in {"loop"} \cup LookupPcs =>
          Keys(results) = SubSeq(unique_websites, 1, idx - 1)
    /\ pc = "write" => Keys(results) = unique_websites
    /\ output_lines # <<>> => WebsitesOf(output_lines) = unique_websites
    /\ out_file.state = "written" => WebsitesOf(out_file.text) = unique_websites
    /\ stdout # <<>> => WebsitesOf(stdout) = unique_websites

(* a report was written for an input that repeats a domain in another case *)
C5_Witness ==
    /\ Finished
    /\ Len(unique_websites) < Len(websites)
    /\ \E i \in 1..Len(websites) : \E j \in 1..Len(websites) :
          /\ i < j
          /\ websites[i] # websites[j]
          /\ Lower(websites[i]) = Lower(websites[j])
          /\ websites[i] # Lower(websites[i])
          /\ websites[i] \in KeySet(results)

(* C6: with the preset file missing or unreadable the run ends with status *)
(* 1, with no provider lookup made and nothing written to the output.      *)
C6_PresetMissingStopsRun ==
    fs_preset.status # "ok" =>
        /\ pc \in {"main", "dedup", "check_reputation", "exited"}
        /\ pc = "exited" => exit_code = 1
        /\ calls = <<>>
        /\ requests = <<>>
        /\ results = <<>>
        /\ output_lines = <<>>
        /\ stdout = <<>>
        /\ out_file.state = "untouched"

(* the run reached the load of the preset file and ended there *)
C6_Witness ==
    /\ fs_preset.status # "ok"
    /\ pc = "exited"
    /\ exit_code = 1
    /\ unique_websites # <<>>
    /\ args.output # None

(* C7: the exit status is 1 exactly when the preset file or the websites   *)
(* file is missing or unreadable, no domain remains, or the output path is *)
(* unwritable; every other run writes the report and exits with status 0.  *)
C7_ExitCodes ==
    pc = "exited" =>
        /\ exit_code = 1 <=>
              \/ fs_preset.status # "ok"
              \/ args.websites_file # None /\ fs_websites.status # "ok"
              \/ unique_websites = <<>>
              \/ out_file.state = "unwritable"
        /\ exit_code # 1 =>
              /\ exit_code = 0
              /\ out_file.state = "written" \/ stdout # <<>>

(* C10 as stated: the lookup key handed to the providers is the spelling   *)
(* the user supplied, the one the report is keyed by.                      *)
C10_VerbatimKey ==
    pc \in LookupPcs => domain = unique_websites[idx]

(* C10 as amended: the lookup key handed to the providers, and sent in the *)
(* requests, is the lowercased form of the user-supplied spelling, while   *)
(* the report stays keyed by the spelling as supplied.                     *)
C10_LowercasedKey ==
    /\ pc \in LookupPcs =>
          /\ domain = Lower(unique_websites[idx])
          /\ DictGet(reputation_data.items, "domain") = PChars(domain)
    /\ \A j \in 1..Len(calls) :
          \E i \in 1..Len(unique_websites) :
              /\ i <= idx
              /\ calls[j][2] = Lower(unique_websites[i])
    /\ \A j \in 1..Len(requests) :
          \E i \in 1..Len(unique_websites) :
              /\ i <= idx
              /\ requests[j][2] = Lower(unique_websites[i])
    /\ \A i \in 1..Len(results) : results[i][1] = unique_websites[i]

(* a domain given with an uppercase letter was looked up and reported *)
C10_Witness ==
    /\ Finished
    /\ \E i \in 1..Len(results) :
          /\ results[i][1] # Lower(results[i][1])
          /\ \E j \in 1..Len(requests) : requests[j][2] = Lower(results[i][1])

-----------------------------------------------------------------------------

ProviderNames == <<"APIVoid", "IPVoid", "MXToolbox">>

DeclaredFields(name) ==
    CASE name = "APIVoid" -> <<"reputation_score", "blacklist_status">>
      [] name = "IPVoid" -> <<"blacklist_count", "details">>
      [] name = "MXToolbox" -> <<"health_status", "details">>

EnvVarOf(name) ==
    CASE name = "APIVoid" -> "APIVOID_API_KEY"
      [] name = "IPVoid" -> "IPVVOID_API_KEY"
      [] name = "MXToolbox" -> "MXTOOLBOX_API_KEY"

IsDict(v) == v.k = "dict"

IsSuccessRecord(name, r) == IsDict(r) /\ Keys(r.items) = DeclaredFields(name)

IsErrorRecord(r) ==
    /\ IsDict(r)
    /\ Keys(r.items) = <<"error">>
    /\ r.items[1][2].k = "str"
    /\ r.items[1][2].str # ""

KeyErrorRecord == PDict(<< <<"error", PStr("API key not provided")>> >>)

IsPresetEntry(rep) == "preset_status" \in KeySet(rep.items)

(* the lines of the report between the line of a website and the next one *)
BlockOf(lines, website) ==
    LET start == CHOOSE i \in 1..Len(lines) :
                    lines[i].line = "website" /\ lines[i].website = website
        later == {i \in (start + 1)..Len(lines) : lines[i].line = "website"}
        end   == IF later = {} THEN Len(lines) + 1
                 ELSE CHOOSE i \in later : \A j \in later : i <= j
    IN  SubSeq(lines, start + 1, end - 1)

IsServiceLine(l) == l.line = "service"

IsFieldLine(l) == l.line = "field"

IsDataLine(l) == l.line = "data"

ServicesOf(block) ==
    LET sel == SelectSeq(block, IsServiceLine)
    IN  [i \in 1..Len(sel) |-> sel[i].service]

(* C2 as stated: the record of a domain absent from the preset set holds   *)
(* exactly the three provider entries and no other entry, each a success   *)
(* record or an error record; so does its block of the report.             *)
C2_ExactlyThreeEntries ==
    /\ \A i \in 1..Len(results) :
          ~IsPresetEntry(results[i][2]) =>
              /\ Keys(results[i][2].items) = ProviderNames
              /\ \A n \in 1..3 :
                    LET r == DictGet(results[i][2].items, ProviderNames[n])
                    IN  IsSuccessRecord(ProviderNames[n], r) \/ IsErrorRecord(r)
    /\ output_lines # <<>> =>
          \A i \in 1..Len(results) :
              ~IsPresetEntry(results[i][2]) =>
                  ServicesOf(BlockOf(output_lines, results[i][1])) = ProviderNames

(* C2 as amended: the record of a domain absent from the preset set holds  *)
(* a "domain" entry (the lowercased domain string) followed by exactly the *)
(* three provider entries APIVoid, IPVoid, MXToolbox, each a success       *)
(* record with all declared fields or an error record with a populated     *)
(* message; its block of the report has a "domain" section of one line     *)
(* followed by the three provider sections, one line per field.            *)
C2_DomainAndThreeEntries ==
    /\ \A i \in 1..Len(results) :
          ~IsPresetEntry(results[i][2]) =>
              /\ Keys(results[i][2].items) = <<"domain">> \o ProviderNames
              /\ results[i][2].items[1][2] = PChars(Lower(results[i][1]))
              /\ \A n \in 1..3 :
                    LET r == DictGet(results[i][2].items, ProviderNames[n])
                    IN  IsSuccessRecord(ProviderNames[n], r) \/ IsErrorRecord(r)
    /\ output_lines # <<>> =>
          \A i \in 1..Len(results) :
              ~IsPresetEntry(results[i][2]) =>
                  LET block == BlockOf(output_lines, results[i][1])
                      items == results[i][2].items
                  IN  /\ ServicesOf(block) = <<"domain">> \o ProviderNames
                      /\ block[2] = [line |-> "data",
                                     data |-> PChars(Lower(results[i][1]))]
                      /\ Len(SelectSeq(block, IsDataLine)) = 1
                      /\ Len(SelectSeq(block, IsFieldLine)) =
                            Len(items[2][2].items) + Len(items[3][2].items)
                            + Len(items[4][2].items)

(* a written report with a looked-up domain: one provider failed, one answered *)
C2_Witness ==
    /\ Finished
    /\ out_file.state = "written"
    /\ \E i \in 1..Len(results) :
          /\ ~IsPresetEntry(results[i][2])
          /\ results[i][1] # Lower(results[i][1])
          /\ IsErrorRecord(DictGet(results[i][2].items, "APIVoid"))
          /\ IsSuccessRecord("MXToolbox", DictGet(results[i][2].items, "MXToolbox"))

(* C4: a lookup whose API key is unset returns exactly                     *)
(* {error: "API key not provided"}, issues no request, and the run goes on *)
(* to the next provider (after MXToolbox, to the next domain).             *)
C4_Step(here, name, next) ==
    (pc = here /\ EnvVarOf(name) \notin env) =>
        /\ requests' = requests
        /\ calls' = Append(calls, <<name, domain>>)
        /\ DictGet(reputation_data'.items, name) = KeyErrorRecord
        /\ pc' = next
        /\ exit_code' = exit_code
        /\ exception' = exception

C4_MissingKeyIsLocal ==
    [][/\ C4_Step("apivoid", "APIVoid", "ipvoid")
       /\ C4_Step("ipvoid", "IPVoid", "mxtoolbox")
       /\ C4_Step("mxtoolbox", "MXToolbox", "loop")
       /\ (pc = "mxtoolbox" /\ pc' = "loop") =>
             /\ idx' = idx + 1
             /\ DictGet(results', unique_websites[idx]) = reputation_data']_vars

(* two domains were reported although the APIVoid key is unset, and IPVoid *)
(* was still asked                                                         *)
C4_Witness ==
    /\ Finished
    /\ "APIVOID_API_KEY" \notin env
    /\ "IPVVOID_API_KEY" \in env
    /\ Len(results) = 2
    /\ \A i \in 1..2 :
          /\ ~IsPresetEntry(results[i][2])
          /\ DictGet(results[i][2].items, "APIVoid") = KeyErrorRecord
    /\ Len(requests) >= 2
    /\ \A j \in 1..Len(requests) : requests[j][1] # "APIVoid"

-----------------------------------------------------------------------------

Absent == [k |-> "absent"]

(* the value a payload holds under a path of keys, if it holds one *)
RECURSIVE ValueAt(_, _)
ValueAt(body, path) ==
    IF path = <<>> THEN body
    ELSE IF body.k = "obj" /\ Head(path) \in DOMAIN body.obj
         THEN ValueAt(body.obj[Head(path)], Tail(path))
         ELSE Absent

FieldPath(name, n) ==
    CASE name = "APIVoid" ->
            IF n = 1 THEN <<"data", "reputation", "score">>
            ELSE <<"data", "blacklists">>
      [] name = "IPVoid" -> IF n = 1 THEN <<"Blacklists">> ELSE <<"Details">>
      [] name = "MXToolbox" -> IF n = 1 THEN <<"Health">> ELSE <<"Details">>

(* a returned result is an error record, or a success record whose fields  *)
(* are the upstream values, "N/A" standing for a key the payload omits     *)
ResultFits(name, resp, r) ==
    \/ IsErrorRecord(r)
    \/ /\ IsSuccessRecord(name, r)
       /\ resp.kind = "response"
       /\ resp.is_json
       /\ \A n \in 1..2 :
             LET v == ValueAt(resp.json, FieldPath(name, n))
             IN  r.items[n][2] = IF v = Absent THEN NA ELSE v

StoredResultFits(name, r) ==
    \/ r = PDict(<<>>)
    \/ IsSuccessRecord(name, r) /\ "error" \notin KeySet(r.items)
    \/ IsErrorRecord(r)

(* C8: every result a provider lookup returns is a success record with     *)
(* exactly the provider's declared fields (the upstream value, or "N/A"    *)
(* for an omitted key) and no error field, or an error record with the     *)
(* error field only.                                                       *)
C8_ResultShape ==
    /\ pc = "apivoid" =>
          \A resp \in ResponsesOf(ApivoidBodies) :
              LET r == apivoid_domain_reputation(resp)
              IN  IsException(r) \/ ResultFits("APIVoid", resp, r)
    /\ pc = "ipvoid" =>
          \A resp \in ResponsesOf(IpvoidBodies) :
              LET r == ipvoid_domain_reputation(resp)
              IN  IsException(r) \/ ResultFits("IPVoid", resp, r)
    /\ pc = "mxtoolbox" =>
          \A resp \in ResponsesOf(MxtoolboxBodies) :
              LET r == mxtoolbox_domain_reputation(resp)
              IN  IsException(r) \/ ResultFits("MXToolbox", resp, r)
    /\ pc \in LookupPcs =>
          \A n \in 1..3 :
              StoredResultFits(ProviderNames[n],
                               DictGet(reputation_data.items, ProviderNames[n]))
    /\ \A i \in 1..Len(results) :
          ~IsPresetEntry(results[i][2]) =>
              \A n \in 1..3 :
                  LET r == DictGet(results[i][2].items, ProviderNames[n])
                  IN  r # PDict(<<>>) /\ StoredResultFits(ProviderNames[n], r)

(* a reported domain with a full success record, a success record holding *)
(* a placeholder, and an error record                                     *)
C8_Witness ==
    /\ Finished
    /\ \E i \in 1..Len(results) :
          /\ ~IsPresetEntry(results[i][2])
          /\ DictGet(results[i][2].items, "APIVoid") =
                PDict(<< <<"reputation_score", JNum(7)>>,
                         <<"blacklist_status", JNum(2)>> >>)
          /\ DictGet(results[i][2].items, "IPVoid") =
                PDict(<< <<"blacklist_count", JNum(3)>>, <<"details", NA>> >>)
          /\ DictGet(results[i][2].items, "MXToolbox") =
                PDict(<< <<"error", PStr("Invalid JSON response")>> >>)

-----------------------------------------------------------------------------

CallsFor(website) ==
    IF Lower(website) \in preset_websites THEN <<>>
    ELSE [n \in 1..3 |-> <<ProviderNames[n], Lower(website)>>]

ExpectedCalls ==
    Flatten([i \in 1..Len(unique_websites) |-> CallsFor(unique_websites[i])])

HasKey(call) == EnvVarOf(call[1]) \in env

Called(name) == DictGet(reputation_data.items, name) # PDict(<<>>)

(* C9: the lookups happen in input order of the domains and, within a      *)
(* domain, in the order APIVoid, IPVoid, MXToolbox, each once and never    *)
(* again; a domain's lookups are over before the next domain's begin;      *)
(* each result is stored under its provider's name.                        *)
C9_CallOrder ==
    /\ fs_preset.status # "ok" => calls = <<>>
    /\ fs_preset.status = "ok" =>
          /\ Len(calls) <= Len(ExpectedCalls)
          /\ calls = SubSeq(ExpectedCalls, 1, Len(calls))
          /\ requests = SelectSeq(calls, HasKey)
          /\ pc = "write" => calls = ExpectedCalls
    /\ pc = "apivoid" =>
          ~Called("APIVoid") /\ ~Called("IPVoid") /\ ~Called("MXToolbox")
    /\ pc = "ipvoid" =>
          /\ Called("APIVoid") /\ ~Called("IPVoid") /\ ~Called("MXToolbox")
          /\ calls[Len(calls)] = <<"APIVoid", Lower(unique_websites[idx])>>
    /\ pc = "mxtoolbox" =>
          /\ Called("APIVoid") /\ Called("IPVoid") /\ ~Called("MXToolbox")
          /\ calls[Len(calls)] = <<"IPVoid", Lower(unique_websites[idx])>>
    /\ \A i \in 1..Len(results) :
          ~IsPresetEntry(results[i][2]) =>
              \A n \in 1..3 :
                  DictGet(results[i][2].items, ProviderNames[n]) # PDict(<<>>)

(* two domains were looked up in turn, the first one's APIVoid lookup *)
(* having failed upstream                                             *)
C9_Witness ==
    /\ Finished
    /\ Len(calls) = 6
    /\ Len(requests) = 6
    /\ calls[3][2] # calls[4][2]
    /\ IsErrorRecord(DictGet(results[1][2].items, "APIVoid"))
    /\ IsSuccessRecord("APIVoid", DictGet(results[2][2].items, "APIVoid"))

====
